---- MODULE Spec2Model ----
(***************************************************************************)
(* Model of the attendance registry of the Bluetooth attendance           *)
(* application: AttendanceManager (src/attendance_app/attendance.py), the  *)
(* manager that gui.py and main.py import.  Every facade method takes the  *)
(* manager's RLock for its whole body and the GUI applies scan results on  *)
(* the Tk main thread, so each method is one atomic action here.           *)
(***************************************************************************)
EXTENDS Integers, FiniteSets, Sequences, TLC

VARIABLES
    classes,   \* self.classes: class_name -> class data dictionary
    now,       \* the wall clock read by datetime.now()
    sticky,    \* history: <<class, student>> pairs manually marked present whose
               \* binding was not changed and who were not marked absent since
    lock,      \* self.lock, the manager's RLock: the thread that owns it, or NoThread
    call,      \* the caller thread's assign_device_to_student call, statement by statement
    cycle,     \* the second thread's update_attendance call, class by class
    data_file, \* the content of the file self.data_file names
    current_scan_interval,  \* self.current_scan_interval
    disk,      \* how the file system answers the next write of the data file
    up,        \* the process is running
    applied,   \* history: the last mutation whose save completed left a registry
               \* that is not empty
    scanner    \* the Scanner object and the scan loops its threads run

vars == <<classes, now, sticky, lock, call, cycle,
          data_file, current_scan_interval, disk, up, applied, scanner>>
threads == <<lock, call, cycle>>
store == <<data_file, current_scan_interval, disk, up, applied>>

-----------------------------------------------------------------------------
(* Bounds and input alphabets *)

\* Largest clock value; timestamps are clock readings.
MaxTime == 1

\* Seconds by which datetime.now() advances in one step of the clock.
TickSeconds == 12

\* Largest number of scan threads start_scanning creates.
MaxThreads == 2

\* Largest number of snapshots waiting on the Tk main thread.
MaxScheduled == 1

\* Largest number of student IDs (roster entries and binding-table keys)
\* the registry tracks over all classes.
MaxStudents == 2

\* Largest number of students the registry holds where the data file, its
\* failures and restarts are explored.
MaxStored == 1

\* Class names a caller passes; "" is the empty name the validation rejects.
ClassNames == {"CSCI-101", "MENG-200"}
ClassArgs == ClassNames \cup {""}

\* Student IDs a caller passes; "" is the empty ID.
StudentIds == {"1", "2"}
StudentArgs == StudentIds \cup {""}

\* Device addresses as typed or scanned: mixed case; "" is the empty address.
Addresses == {"aa:01", "BB:02"}
AddressArgs == Addresses \cup {""}

\* Student names.
Names == {"Ada"}

\* "no value" for an optional field of the student dictionary.
None == "None"

\* AttendanceManager.__init__(initial_scan_interval=10).
InitialScanInterval == 10

\* The intervals the interval selector passes; 0 is the value the validation rejects.
ScanIntervals == {5, InitialScanInterval}
ScanIntervalArgs == ScanIntervals \cup {0}

\* The answers of the file system to a write of the data file: the write
\* succeeds; open() fails; pickle.dump fails after open(..., 'wb') truncated
\* the file; the process dies inside pickle.dump.
DiskModes == {"ok", "open_fails", "dump_fails", "power_cut"}

-----------------------------------------------------------------------------
(* Python helpers *)

\* str.upper() on the addresses of the alphabet.
upper(addr) == IF addr = "aa:01" THEN "AA:01" ELSE addr

\* The device IDs the registry can hold.
Macs == {upper(a) : a \in Addresses}

\* str(n) for a positive integer.
Digit(d) == SubSeq("0123456789", d + 1, d + 1)
RECURSIVE str(_)
str(n) == IF n < 10 THEN Digit(n) ELSE str(n \div 10) \o Digit(n % 10)

\* bool(v), the truth value a caller's "if" gives a returned value: None and
\* False are false.
bool(v) == v \notin {None, "False"}

\* An empty dict.
EmptyDict == [k \in {} |-> {}]

\* d[k] = v
Put(d, k, v) == [x \in DOMAIN d \cup {k} |-> IF x = k THEN v ELSE d[x]]

\* d.pop(k, None)
Pop(d, k) == [x \in DOMAIN d \ {k} |-> d[x]]

\* The outcome of a call: the registry it leaves, whether it raised, and
\* whether it called save_data.
Returned(cls) == [classes |-> cls, raised |-> FALSE, saved |-> FALSE]
Raised(cls) == [classes |-> cls, raised |-> TRUE, saved |-> FALSE]
Saved(cls) == [classes |-> cls, raised |-> FALSE, saved |-> TRUE]

\* Threads and the RLock.
NoThread == "none"
Caller == "caller"
Second == "second"

\* A faulty lock: acquire never blocks.
acquire_never_blocks(owner, thread) == TRUE

\* threading.RLock.acquire: a thread gets the lock when nobody owns it, or
\* when it owns it itself.
can_acquire(owner, thread) == owner = NoThread \/ owner = thread

NoCall == [pc |-> "idle", class_name |-> "", student_id |-> "", addr |-> "", prev |-> {}]
NoCycle == [pc |-> "idle", found_devices |-> {}, todo |-> {}]

-----------------------------------------------------------------------------
(* AttendanceManager *)

_initialize_class_data ==
    [students |-> EmptyDict,
     present_students |-> {},
     student_mac_addresses |-> EmptyDict,
     attendance_timestamps |-> EmptyDict]

\* The content of the data file: no file; a pickle of a registry; or a file
\* that open(..., 'wb') truncated and pickle.dump did not finish.
Missing == [kind |-> "missing", classes |-> EmptyDict]
Partial == [kind |-> "partial", classes |-> EmptyDict]

\* pickle.dump(self.classes, f): the file holds self.classes and nothing else
\* of the manager.
pickle_dump(cls) == [kind |-> "pickle", classes |-> cls]

\* Faulty variant of save_data: the exception of a failed write leaves the method.
save_data_propagates(cls, file, mode) ==
    [data_file |-> IF mode = "ok" THEN pickle_dump(cls)
                   ELSE IF mode = "open_fails" THEN file ELSE Partial,
     raised |-> mode \in {"open_fails", "dump_fails"},
     died |-> mode = "power_cut"]

\* save_data: the file after the call, whether the call raised, and whether
\* the process died inside it.  Every exception of the write is caught and
\* logged.
save_data(cls, file, mode) ==
    [data_file |-> IF mode = "ok" THEN pickle_dump(cls)
                   ELSE IF mode = "open_fails" THEN file ELSE Partial,
     raised |-> FALSE,
     died |-> mode = "power_cut"]

\* load_data: a missing file, or one pickle.load fails on, gives the empty
\* registry; the method never raises.
load_data(file) ==
    [classes |-> IF file.kind = "pickle" THEN file.classes ELSE EmptyDict,
     raised |-> FALSE]

\* What a fresh manager holds as current_scan_interval once __init__ has run
\* load_data on a file: the file carries no interval.
loaded_scan_interval(file) == InitialScanInterval

\* delete_database: the registry is emptied and the data file removed; a
\* failing os.remove is caught and leaves the file.
delete_database(cls, file, mode) ==
    [classes |-> EmptyDict,
     data_file |-> IF mode = "open_fails" THEN file ELSE Missing,
     raised |-> FALSE]

\* The whole of a facade call with outcome r: when the call reached save_data
\* the file is what that write leaves, and the call raises when the method
\* body or save_data raised.
after_call(r, file, mode) ==
    [classes |-> r.classes,
     data_file |-> IF r.saved THEN save_data(r.classes, file, mode).data_file ELSE file,
     raised |-> r.raised \/ (r.saved /\ save_data(r.classes, file, mode).raised),
     died |-> r.saved /\ save_data(r.classes, file, mode).died]

\* Faulty variant of set_scan_interval: every value is stored.
set_scan_interval_unchecked(interval, new_interval) ==
    [current_scan_interval |-> new_interval, raised |-> FALSE, saved |-> FALSE]

\* set_scan_interval: the new value of self.current_scan_interval; the
\* method does not call save_data.
set_scan_interval(interval, new_interval) ==
    IF new_interval <= 0
    THEN [current_scan_interval |-> interval, raised |-> TRUE, saved |-> FALSE]
    ELSE [current_scan_interval |-> new_interval, raised |-> FALSE, saved |-> FALSE]

\* student_data.get('manual_override', False) with student_data =
\* class_data['students'].get(student_id, {})
manual_override(cdata, sid) ==
    IF sid \in DOMAIN cdata.students THEN cdata.students[sid].manual_override ELSE FALSE

\* class_data['student_mac_addresses'].get(student_id, set())
macs_of(cdata, sid) ==
    IF sid \in DOMAIN cdata.student_mac_addresses
    THEN cdata.student_mac_addresses[sid] ELSE {}

add_class(cls, class_name) ==
    IF class_name = "" THEN Raised(cls)
    ELSE IF class_name \notin DOMAIN cls
         THEN Saved(Put(cls, class_name, _initialize_class_data))
         ELSE Returned(cls)

delete_class(cls, class_name) ==
    IF class_name = "" THEN Raised(cls)
    ELSE IF class_name \in DOMAIN cls
         THEN Saved(Pop(cls, class_name))
         ELSE Returned(cls)

\* Faulty variant of first_free_id: the new ID is the size of the roster plus one.
first_free_id_from_count(existing_ids, new_id) ==
    str(Cardinality(existing_ids) + new_id)

\* _generate_unique_student_id: the smallest n >= 1 with str(n) not an ID of the class.
RECURSIVE first_free_id(_, _)
first_free_id(existing_ids, new_id) ==
    IF str(new_id) \in existing_ids THEN first_free_id(existing_ids, new_id + 1)
    ELSE str(new_id)

_generate_unique_student_id(cls, class_name) ==
    first_free_id(DOMAIN cls[class_name].students, 1)

\* The (class, student) pairs whose MAC set holds addr_upper.
holders(cls, addr_upper) ==
    UNION {{<<cname, sid>> : sid \in {x \in DOMAIN cls[cname].student_mac_addresses :
                                        addr_upper \in cls[cname].student_mac_addresses[x]}} :
           cname \in DOMAIN cls}

\* get_student_by_mac: a holder of the address, or <<None, None>>.
get_student_by_mac(cls, addr) ==
    IF addr = "" \/ holders(cls, upper(addr)) = {} THEN <<None, None>>
    ELSE CHOOSE p \in holders(cls, upper(addr)) : TRUE

\* Faulty variant of unbind_other_holders: only the class of the new holder is
\* searched for other holders.
unbind_same_class_only(cls, class_name, student_id, addr_upper) ==
    [cname \in DOMAIN cls |->
        LET cdata == cls[cname]
            others == {sid \in DOMAIN cdata.student_mac_addresses :
                          /\ addr_upper \in cdata.student_mac_addresses[sid]
                          /\ cname = class_name /\ sid # student_id}
        IN [cdata EXCEPT
               !.student_mac_addresses =
                   [sid \in DOMAIN cdata.student_mac_addresses |->
                       IF sid \in others
                       THEN cdata.student_mac_addresses[sid] \ {addr_upper}
                       ELSE cdata.student_mac_addresses[sid]],
               !.present_students = cdata.present_students \ others,
               !.attendance_timestamps =
                   [sid \in DOMAIN cdata.attendance_timestamps \ others |->
                       cdata.attendance_timestamps[sid]]]]

\* Faulty variant of unbind_other_holders: the other holders lose the address
\* but keep their presence and timestamp.
unbind_keeps_presence(cls, class_name, student_id, addr_upper) ==
    [cname \in DOMAIN cls |->
        LET cdata == cls[cname]
            others == {sid \in DOMAIN cdata.student_mac_addresses :
                          /\ addr_upper \in cdata.student_mac_addresses[sid]
                          /\ (cname # class_name \/ sid # student_id)}
        IN [cdata EXCEPT
               !.student_mac_addresses =
                   [sid \in DOMAIN cdata.student_mac_addresses |->
                       IF sid \in others
                       THEN cdata.student_mac_addresses[sid] \ {addr_upper}
                       ELSE cdata.student_mac_addresses[sid]]]]

\* Faulty variant of unbind_other_holders: no holder is unbound.
unbind_nobody(cls, class_name, student_id, addr_upper) == cls

\* assign_device_to_student, the loop "Remove the MAC address from any other
\* student": every other holder loses the address, its presence and its timestamp.
unbind_other_holders(cls, class_name, student_id, addr_upper) ==
    [cname \in DOMAIN cls |->
        LET cdata == cls[cname]
            others == {sid \in DOMAIN cdata.student_mac_addresses :
                          /\ addr_upper \in cdata.student_mac_addresses[sid]
                          /\ (cname # class_name \/ sid # student_id)}
        IN [cdata EXCEPT
               !.student_mac_addresses =
                   [sid \in DOMAIN cdata.student_mac_addresses |->
                       IF sid \in others
                       THEN cdata.student_mac_addresses[sid] \ {addr_upper}
                       ELSE cdata.student_mac_addresses[sid]],
               !.present_students = cdata.present_students \ others,
               !.attendance_timestamps =
                   [sid \in DOMAIN cdata.attendance_timestamps \ others |->
                       cdata.attendance_timestamps[sid]]]]

\* assign_device_to_student, "Assign the MAC address to the correct student":
\* the defaultdict entry of student_id gets the address (the entry is created
\* when missing, whether or not the student is in the roster) and the
\* student's manual override, if the student exists, is reset.
bind_new_holder(cls, class_name, student_id, addr_upper) ==
    LET cdata == cls[class_name]
    IN Put(cls, class_name,
           [cdata EXCEPT
               !.student_mac_addresses =
                   Put(cdata.student_mac_addresses, student_id,
                       macs_of(cdata, student_id) \cup {addr_upper}),
               !.students =
                   IF student_id \in DOMAIN cdata.students
                   THEN [cdata.students EXCEPT ![student_id].manual_override = FALSE]
                   ELSE cdata.students])

\* Faulty variant of assign_device_to_student: the other holders are unbound
\* before the class of the new holder is looked up.
assign_unbinds_before_class_check(cls, class_name, student_id, addr) ==
    IF class_name = "" \/ student_id = "" \/ addr = "" THEN Raised(cls)
    ELSE IF class_name \notin DOMAIN cls
         THEN Raised(unbind_other_holders(cls, class_name, student_id, upper(addr)))
    ELSE Saved(bind_new_holder(
             unbind_other_holders(cls, class_name, student_id, upper(addr)),
             class_name, student_id, upper(addr)))

assign_device_to_student(cls, class_name, student_id, addr) ==
    IF class_name = "" \/ student_id = "" \/ addr = "" THEN Raised(cls)
    ELSE IF class_name \notin DOMAIN cls THEN Raised(cls)
    ELSE Saved(bind_new_holder(
             unbind_other_holders(cls, class_name, student_id, upper(addr)),
             class_name, student_id, upper(addr)))

remove_mac_from_student(cls, class_name, student_id, addr) ==
    IF class_name = "" \/ student_id = "" \/ addr = "" THEN Raised(cls)
    ELSE IF class_name \notin DOMAIN cls THEN Raised(cls)
    ELSE IF upper(addr) \in macs_of(cls[class_name], student_id)
         THEN Saved([cls EXCEPT ![class_name].student_mac_addresses[student_id] =
                                       @ \ {upper(addr)}])
         ELSE Returned(cls)

\* Faulty variant of add_student_to_class: an existing record is replaced by
\* the supplied one, as a new student's would be, instead of updated.
add_student_replaces_record(cls, class_name, name, student_id, device_address) ==
    IF class_name = "" THEN Raised(cls)
    ELSE IF name = None THEN Raised(cls)
    ELSE
      LET cls1 == IF class_name \notin DOMAIN cls
                  THEN Put(cls, class_name, _initialize_class_data) ELSE cls
          sid == IF student_id = None \/ student_id = ""
                 THEN _generate_unique_student_id(cls1, class_name) ELSE student_id
          cdata == cls1[class_name]
          cls2 == [cls1 EXCEPT ![class_name].students =
                       Put(cdata.students, sid,
                           [name |-> name, manual_override |-> FALSE])]
      IN IF device_address = None \/ device_address = "" THEN Saved(cls2)
         ELSE assign_device_to_student(cls2, class_name, sid, device_address)

\* add_student_to_class with student = {'name': name, 'student_id': student_id,
\* 'device_address': device_address}; None stands for a missing or empty field.
add_student_to_class(cls, class_name, name, student_id, device_address) ==
    IF class_name = "" THEN Raised(cls)
    ELSE IF name = None THEN Raised(cls)
    ELSE
      LET cls1 == IF class_name \notin DOMAIN cls
                  THEN Put(cls, class_name, _initialize_class_data) ELSE cls
          sid == IF student_id = None \/ student_id = ""
                 THEN _generate_unique_student_id(cls1, class_name) ELSE student_id
          cdata == cls1[class_name]
          cls2 == IF sid \in DOMAIN cdata.students
                  THEN [cls1 EXCEPT ![class_name].students[sid].name = name]
                  ELSE [cls1 EXCEPT ![class_name].students =
                            Put(cdata.students, sid,
                                [name |-> name, manual_override |-> FALSE])]
      IN IF device_address = None \/ device_address = "" THEN Saved(cls2)
         ELSE assign_device_to_student(cls2, class_name, sid, device_address)

\* Faulty variant of newly_present: a student is detected only when all of the
\* student's MAC addresses are in found_devices.
newly_present_all_macs(cdata, found_devices) ==
    {sid \in DOMAIN cdata.student_mac_addresses :
        IF manual_override(cdata, sid)
        THEN sid \in cdata.present_students
        ELSE /\ cdata.student_mac_addresses[sid] # {}
             /\ cdata.student_mac_addresses[sid] \subseteq found_devices}

\* Faulty variant of newly_present: manual overrides are not looked at.
newly_present_ignores_override(cdata, found_devices) ==
    {sid \in DOMAIN cdata.student_mac_addresses :
        cdata.student_mac_addresses[sid] \cap found_devices # {}}

\* update_attendance, first loop of one class: the students of the binding
\* table that stay or become present.  A student under manual override is
\* kept when present and is not looked up in found_devices.
newly_present(cdata, found_devices) ==
    {sid \in DOMAIN cdata.student_mac_addresses :
        IF manual_override(cdata, sid)
        THEN sid \in cdata.present_students
        ELSE cdata.student_mac_addresses[sid] \cap found_devices # {}}

\* Faulty variant of new_timestamps: the timestamps of students no longer
\* present are not deleted.
new_timestamps_never_deleted(cdata, found_devices, current_time) ==
    LET present == {sid \in DOMAIN cdata.student_mac_addresses :
                       IF manual_override(cdata, sid)
                       THEN sid \in cdata.present_students
                       ELSE cdata.student_mac_addresses[sid] \cap found_devices # {}}
        detected == {sid \in present : ~manual_override(cdata, sid)}
    IN [sid \in DOMAIN cdata.attendance_timestamps \cup detected |->
           IF sid \in DOMAIN cdata.attendance_timestamps
           THEN cdata.attendance_timestamps[sid] ELSE current_time]

\* Faulty variant of new_timestamps: every detected student is stamped with
\* current_time, whether or not the student has a timestamp.
new_timestamps_restamps(cdata, found_devices, current_time) ==
    LET present == {sid \in DOMAIN cdata.student_mac_addresses :
                       IF manual_override(cdata, sid)
                       THEN sid \in cdata.present_students
                       ELSE cdata.student_mac_addresses[sid] \cap found_devices # {}}
        detected == {sid \in present : ~manual_override(cdata, sid)}
    IN [sid \in (DOMAIN cdata.attendance_timestamps \cup detected) \cap present |->
           IF sid \in detected THEN current_time ELSE cdata.attendance_timestamps[sid]]

\* update_attendance, the timestamps of one class: a detected student without
\* a timestamp gets current_time; timestamps of the others are deleted.
new_timestamps(cdata, found_devices, current_time) ==
    LET present == newly_present(cdata, found_devices)
        detected == {sid \in present : ~manual_override(cdata, sid)}
    IN [sid \in (DOMAIN cdata.attendance_timestamps \cup detected) \cap present |->
           IF sid \in DOMAIN cdata.attendance_timestamps
           THEN cdata.attendance_timestamps[sid] ELSE current_time]

\* What update_attendance returns: the method has no return statement.
update_attendance_returns(cls, found_devices, current_time) == None

\* update_attendance calls save_data at the end of every iteration of its
\* loop over the classes.
update_attendance_saves(cls) == DOMAIN cls # {}

\* Faulty variant of update_attendance: the override flag of every student
\* the snapshot detects is cleared.
update_attendance_clears_override(cls, found_devices, current_time) ==
    [cname \in DOMAIN cls |->
        [cls[cname] EXCEPT
            !.students = [sid \in DOMAIN cls[cname].students |->
                IF macs_of(cls[cname], sid) \cap found_devices # {}
                THEN [cls[cname].students[sid] EXCEPT !.manual_override = FALSE]
                ELSE cls[cname].students[sid]],
            !.present_students = newly_present(cls[cname], found_devices),
            !.attendance_timestamps =
                new_timestamps(cls[cname], found_devices, current_time)]]

\* update_attendance(found_devices): found_devices is the set of keys of the
\* dictionary the scanner delivers.
update_attendance(cls, found_devices, current_time) ==
    [cname \in DOMAIN cls |->
        [cls[cname] EXCEPT
            !.present_students = newly_present(cls[cname], found_devices),
            !.attendance_timestamps =
                new_timestamps(cls[cname], found_devices, current_time)]]

\* update_attendance as a call: it never raises.
update_attendance_call(cls, found_devices, current_time) ==
    [classes |-> update_attendance(cls, found_devices, current_time),
     raised |-> FALSE,
     saved |-> update_attendance_saves(cls)]

mark_student_present(cls, class_name, student_id, current_time) ==
    IF class_name = "" \/ student_id = "" THEN Raised(cls)
    ELSE IF class_name \notin DOMAIN cls THEN Raised(cls)
    ELSE IF student_id \in DOMAIN cls[class_name].students
         THEN Saved([cls EXCEPT
                  ![class_name].present_students = @ \cup {student_id},
                  ![class_name].attendance_timestamps = Put(@, student_id, current_time),
                  ![class_name].students[student_id].manual_override = TRUE])
         ELSE Returned(cls)

mark_student_absent(cls, class_name, student_id) ==
    IF class_name = "" \/ student_id = "" THEN Raised(cls)
    ELSE IF class_name \notin DOMAIN cls THEN Returned(cls)
    ELSE IF student_id \in DOMAIN cls[class_name].students
         THEN Saved([cls EXCEPT
                  ![class_name].present_students = @ \ {student_id},
                  ![class_name].attendance_timestamps = Pop(@, student_id),
                  ![class_name].students[student_id].manual_override = TRUE])
         ELSE Returned(cls)

\* Faulty variant of delete_student: the binding-table entry of the removed
\* student is left behind.
delete_student_keeps_bindings(cls, class_name, student_id) ==
    IF class_name = "" \/ student_id = "" THEN Raised(cls)
    ELSE IF class_name \notin DOMAIN cls THEN Raised(cls)
    ELSE IF student_id \in DOMAIN cls[class_name].students
         THEN Saved([cls EXCEPT
                  ![class_name].present_students = @ \ {student_id},
                  ![class_name].attendance_timestamps = Pop(@, student_id),
                  ![class_name].students = Pop(@, student_id)])
         ELSE Raised(cls)

delete_student(cls, class_name, student_id) ==
    IF class_name = "" \/ student_id = "" THEN Raised(cls)
    ELSE IF class_name \notin DOMAIN cls THEN Raised(cls)
    ELSE IF student_id \in DOMAIN cls[class_name].students
         THEN Saved([cls EXCEPT
                  ![class_name].student_mac_addresses = Pop(@, student_id),
                  ![class_name].present_students = @ \ {student_id},
                  ![class_name].attendance_timestamps = Pop(@, student_id),
                  ![class_name].students = Pop(@, student_id)])
         ELSE Raised(cls)

\* (datetime.now() - timestamp).total_seconds(), timestamps and current_time
\* being clock readings.
total_seconds(current_time, timestamp) == (current_time - timestamp) * TickSeconds

\* int(elapsed_time / scan_interval): the quotient truncated toward zero.
int_quotient(elapsed_time, scan_interval) ==
    IF elapsed_time >= 0 THEN elapsed_time \div scan_interval
    ELSE 0 - ((0 - elapsed_time) \div scan_interval)

max(a, b) == IF a >= b THEN a ELSE b

\* Faulty variant of get_attendance_count: the quotient is returned as it is.
get_attendance_count_unclamped(cls, class_name, student_id, current_time, interval) ==
    IF class_name = "" \/ student_id = "" THEN 0
    ELSE IF class_name \notin DOMAIN cls THEN 0
    ELSE IF student_id \notin DOMAIN cls[class_name].attendance_timestamps THEN 0
    ELSE IF interval <= 0 THEN 0
    ELSE int_quotient(total_seconds(current_time,
                          cls[class_name].attendance_timestamps[student_id]), interval)

\* get_attendance_count at the clock reading current_time with
\* self.current_scan_interval = interval.
get_attendance_count(cls, class_name, student_id, current_time, interval) ==
    IF class_name = "" \/ student_id = "" THEN 0
    ELSE IF class_name \notin DOMAIN cls THEN 0
    ELSE IF student_id \notin DOMAIN cls[class_name].attendance_timestamps THEN 0
    ELSE LET elapsed_time == total_seconds(current_time,
                                 cls[class_name].attendance_timestamps[student_id])
         IN IF interval <= 0 THEN 0
            ELSE max(1, int_quotient(elapsed_time, interval))

-----------------------------------------------------------------------------
(* Scanner *)

\* Scanner.__init__: scan_interval=10
DefaultScanInterval == 10

\* Scanner.__init__: rssi_threshold=-70, in dBm
DefaultRssiThreshold == 0 - 70

\* The signal-strength floors the settings offer: the default and a lower one.
RssiThresholds == {DefaultRssiThreshold, DefaultRssiThreshold - 20}

\* One thread running scan_devices in its event loop.  pc is the statement
\* the coroutine is at: "check" the while condition, "discover" the await of
\* BleakScanner.discover(), "sleep" the await of asyncio.sleep in the finally
\* clause, "exited" after the coroutine returned and the thread ended.
\* bound: the local scan_interval has been assigned.  cancelled: task.cancel()
\* was called and CancelledError is not thrown yet.  leaving: the break of the
\* CancelledError handler is pending behind the finally clause.
\* previous_found_devices: the addresses of the last snapshot passed on.
\* locks: the locks the thread holds while it is at pc, of "settings"
\* (Scanner.lock) and "registry" (AttendanceManager.lock).
NewLoop ==
    [pc |-> "check", bound |-> FALSE, cancelled |-> FALSE, leaving |-> FALSE,
     previous_found_devices |-> {}, locks |-> {}]

\* A thread whose coroutine has returned: its locals are gone.
EndedLoop == [NewLoop EXCEPT !.pc = "exited"]

\* Scanner.__init__.  stop_event.id tells the Future objects apart.
\* scheduled: the snapshots handle_scan_results has scheduled on the Tk main
\* thread with master.after(0, self._on_scan_results, found_devices), oldest
\* first.
Scanner__init__ ==
    [scanning |-> FALSE,
     rssi_threshold |-> DefaultRssiThreshold,
     scan_interval |-> DefaultScanInterval,
     stop_event |-> [id |-> 0, done |-> FALSE],
     loops |-> <<>>,
     scheduled |-> <<>>]

\* Faulty variant of start_scanning: the scanning flag is not looked at.
start_scanning_unguarded(s) ==
    [s EXCEPT !.scanning = TRUE,
              !.stop_event = [id |-> s.stop_event.id + 1, done |-> FALSE],
              !.loops = Append(@, NewLoop)]

\* start_scanning: a new event loop, a new stop_event and a new thread, or
\* a warning when scanning is on.
start_scanning(s) ==
    IF ~s.scanning
    THEN [s EXCEPT !.scanning = TRUE,
                   !.stop_event = [id |-> s.stop_event.id + 1, done |-> FALSE],
                   !.loops = Append(@, NewLoop)]
    ELSE s

\* self.thread.is_alive() for the thread start_scanning created last.
thread_is_alive(s) ==
    Len(s.loops) > 0 /\ s.loops[Len(s.loops)].pc # "exited"

\* Faulty variant of stop_scanning: the flag is cleared and the loop is told
\* nothing.
stop_scanning_flag_only(s) ==
    IF ~s.scanning THEN s ELSE [s EXCEPT !.scanning = FALSE]

\* Faulty variant of stop_scanning: stop_event is completed and no task is
\* cancelled.
stop_scanning_without_cancel(s) ==
    IF ~s.scanning THEN s
    ELSE IF thread_is_alive(s)
         THEN [s EXCEPT !.scanning = FALSE, !.stop_event.done = TRUE]
         ELSE [s EXCEPT !.scanning = FALSE]

\* stop_scanning: stop_event.set_result(True) through call_soon_threadsafe,
\* task.cancel() for the tasks of self.loop, and thread.join(timeout=5), after
\* which the call returns whether or not the thread has ended.
stop_scanning(s) ==
    IF ~s.scanning THEN s
    ELSE IF thread_is_alive(s)
         THEN [s EXCEPT !.scanning = FALSE,
                        !.stop_event.done = TRUE,
                        !.loops[Len(s.loops)].cancelled = TRUE]
         ELSE [s EXCEPT !.scanning = FALSE]

\* Faulty variant of Scanner.update_scan_interval: every value is stored.
update_scan_interval_unchecked(s, new_interval) ==
    [s EXCEPT !.scan_interval = new_interval]

\* Scanner.update_scan_interval: a value below 1 raises ValueError, which the
\* method catches and logs.
update_scan_interval(s, new_interval) ==
    IF new_interval < 1 THEN s ELSE [s EXCEPT !.scan_interval = new_interval]

\* Scanner.update_rssi_threshold: the value is stored as it is.
update_rssi_threshold(s, new_threshold) == [s EXCEPT !.rssi_threshold = new_threshold]

\* Scanner.lock is free: no scan thread is inside "with self.lock".
settings_lock_free(s) ==
    \A i \in DOMAIN s.loops : "settings" \notin s.loops[i].locks

\* The BLEDevice lists BleakScanner.discover() returns: nothing, or one device
\* with a signal above the default floor, or the same device with a signal
\* between the two floors.
NearbyDevices ==
    {{}} \cup {{[address |-> "aa:01", rssi |-> DefaultRssiThreshold + r]} : r \in {10, 0 - 10}}

\* What one call of BleakScanner.discover() ends in: an exception, or the
\* devices nearby.
ScanOutcomes ==
    {[raised |-> TRUE, nearby_devices |-> {}]}
        \cup {[raised |-> FALSE, nearby_devices |-> n] : n \in NearbyDevices}

\* The keys of found_devices: the upper-cased addresses of the devices with
\* rssi >= rssi_threshold.
found_device_keys(nearby_devices, rssi_threshold) ==
    {upper(device.address) : device \in {x \in nearby_devices : x.rssi >= rssi_threshold}}

\* found_devices != previous_found_devices: every entry of found_devices
\* carries the time.time() of its scan, so that two snapshots are equal only
\* when both are empty.
differs(found_devices, previous_found_devices) ==
    found_devices # {} \/ previous_found_devices # {}

\* The snapshot the cycle hands to scan_devices_callback_wrapper, if any.
snapshot_delivered(l, outcome, rssi_threshold) ==
    IF l.cancelled \/ outcome.raised
    THEN [called |-> FALSE, found_devices |-> {}]
    ELSE LET found == found_device_keys(outcome.nearby_devices, rssi_threshold)
         IN [called |-> differs(found, l.previous_found_devices),
             found_devices |-> found]

\* The finally clause of a cycle, await asyncio.sleep(scan_interval): the
\* read of a local that was never assigned raises UnboundLocalError, which
\* leaves the while loop through the outer except Exception.
enter_finally(l) ==
    IF l.bound THEN [l EXCEPT !.pc = "sleep"] ELSE EndedLoop

\* Faulty variant of loop_check: "with self.lock" is entered before
\* discover() is awaited.
loop_check_holding_lock(s, l) ==
    IF s.stop_event.done THEN EndedLoop
    ELSE [l EXCEPT !.pc = "discover", !.locks = {"settings"}]

\* while not self.stop_event.done(): the thread goes on to await discover(),
\* holding the locks it held, which are none; "with self.lock" is entered
\* and left after discover() has returned, inside the step of loop_discover.
loop_check(s, l) ==
    IF s.stop_event.done THEN EndedLoop ELSE [l EXCEPT !.pc = "discover"]

\* The try block of one cycle, from await BleakScanner.discover() on.
loop_discover(l, outcome, rssi_threshold) ==
    IF l.cancelled
    THEN enter_finally([l EXCEPT !.cancelled = FALSE, !.leaving = TRUE])
    ELSE IF outcome.raised THEN enter_finally(l)
    ELSE LET found == found_device_keys(outcome.nearby_devices, rssi_threshold)
         IN enter_finally(
                [l EXCEPT !.bound = TRUE,
                          !.previous_found_devices =
                              IF differs(found, @) THEN found ELSE @])

\* The end of the sleep: CancelledError leaves the coroutine, a pending break
\* leaves the while loop, and otherwise the condition is tested again.
loop_sleep(l) ==
    IF l.cancelled \/ l.leaving
    THEN EndedLoop
    ELSE [l EXCEPT !.pc = "check"]

-----------------------------------------------------------------------------
(* Derived views of the registry *)

\* The student IDs a class tracks: its roster and the keys of its binding table.
tracked(cdata) == DOMAIN cdata.students \cup DOMAIN cdata.student_mac_addresses

AllPairs(cls) == UNION {{<<cname, sid>> : sid \in tracked(cls[cname])} : cname \in DOMAIN cls}

\* The roster members among a set of (class, student) pairs.
InRoster(cls, pairs) ==
    {p \in pairs : p[1] \in DOMAIN cls /\ p[2] \in DOMAIN cls[p[1]].students}

\* The ID add_student_to_class stores the student under.
stored_student_id(cls, class_name, student_id) ==
    IF student_id # None /\ student_id # "" THEN student_id
    ELSE IF class_name \in DOMAIN cls THEN _generate_unique_student_id(cls, class_name)
    ELSE str(1)

-----------------------------------------------------------------------------
(* The state machine: one action per facade call *)

\* __init__ on a machine without a data file: load_data leaves the empty registry.
Init ==
    /\ classes = load_data(Missing).classes
    /\ now = 0
    /\ sticky = {}
    /\ lock = NoThread
    /\ call = NoCall
    /\ cycle = NoCycle
    /\ data_file = Missing
    /\ current_scan_interval = InitialScanInterval
    /\ disk = "ok"
    /\ up = TRUE
    /\ applied = FALSE
    /\ scanner = Scanner__init__

\* A facade call run as one step by a thread that is in no call of its own:
\* "with self.lock" spans the body, so the call needs the lock free and
\* leaves it free.
WithLock ==
    /\ up
    /\ can_acquire(lock, Second)
    /\ cycle.pc = "idle"
    /\ UNCHANGED <<threads, scanner>>

\* The end of a call with outcome r: the registry the call leaves, and, when
\* the call reached save_data, the data file that write leaves.
Finish(r) ==
    LET f == after_call(r, data_file, disk)
    IN /\ classes' = f.classes
       /\ data_file' = f.data_file
       /\ up' = ~f.died
       /\ applied' = IF r.saved /\ disk = "ok" THEN r.classes # EmptyDict ELSE applied
       /\ UNCHANGED <<disk, current_scan_interval>>

\* Time passes between calls: datetime.now() advances.  The clock stands still
\* under Spec, where every timestamp is the reading 0; only the specification
\* of the timestamp values lets it run.
Tick ==
    /\ now < MaxTime
    /\ now' = now + 1
    /\ UNCHANGED <<classes, sticky, threads, store, scanner>>

AddClass(class_name) ==
    /\ WithLock
    /\ Finish(add_class(classes, class_name))
    /\ UNCHANGED <<now, sticky>>

DeleteClass(class_name) ==
    /\ WithLock
    /\ Finish(delete_class(classes, class_name))
    /\ sticky' = InRoster(classes', sticky)
    /\ UNCHANGED now

AddStudentToClass(class_name, name, student_id, device_address) ==
    LET r == add_student_to_class(classes, class_name, name, student_id, device_address)
        sid == stored_student_id(classes, class_name, student_id)
    IN /\ WithLock
       /\ Cardinality(AllPairs(r.classes)) <= MaxStudents
       /\ Finish(r)
       /\ sticky' = IF device_address = None \/ device_address = "" \/ r.raised
                    THEN sticky
                    ELSE sticky \ ({<<class_name, sid>>}
                                   \cup holders(classes, upper(device_address)))
       /\ UNCHANGED now

AssignDeviceToStudent(class_name, student_id, addr) ==
    LET r == assign_device_to_student(classes, class_name, student_id, addr)
    IN /\ WithLock
       /\ Cardinality(AllPairs(r.classes)) <= MaxStudents
       /\ Finish(r)
       /\ sticky' = IF r.raised THEN sticky
                    ELSE sticky \ ({<<class_name, student_id>>}
                                   \cup holders(classes, upper(addr)))
       /\ UNCHANGED now

RemoveMacFromStudent(class_name, student_id, addr) ==
    LET r == remove_mac_from_student(classes, class_name, student_id, addr)
    IN /\ WithLock
       /\ Finish(r)
       /\ sticky' = IF r.classes # classes THEN sticky \ {<<class_name, student_id>>}
                    ELSE sticky
       /\ UNCHANGED now

MarkStudentPresent(class_name, student_id) ==
    LET r == mark_student_present(classes, class_name, student_id, now)
    IN /\ WithLock
       /\ Finish(r)
       /\ sticky' = IF ~r.raised /\ class_name \in DOMAIN classes
                       /\ student_id \in DOMAIN classes[class_name].students
                    THEN sticky \cup {<<class_name, student_id>>}
                    ELSE sticky
       /\ UNCHANGED now

MarkStudentAbsent(class_name, student_id) ==
    LET r == mark_student_absent(classes, class_name, student_id)
    IN /\ WithLock
       /\ Finish(r)
       /\ sticky' = sticky \ {<<class_name, student_id>>}
       /\ UNCHANGED now

DeleteStudent(class_name, student_id) ==
    LET r == delete_student(classes, class_name, student_id)
    IN /\ WithLock
       /\ Finish(r)
       /\ sticky' = InRoster(classes', sticky)
       /\ UNCHANGED now

\* One reconcile cycle: the snapshot of one scan applied to every class.
UpdateAttendance(found_devices) ==
    /\ WithLock
    /\ Finish(update_attendance_call(classes, found_devices, now))
    /\ UNCHANGED <<now, sticky>>

\* The arguments of the calls: every combination of well-formed arguments, and
\* one call for each argument the validation rejects.
AddClassArgs == ClassArgs
AddStudentArgs ==
    (ClassNames \X Names \X (StudentIds \cup {None}) \X (Addresses \cup {None}))
        \cup {<<"", "Ada", None, None>>, <<"CSCI-101", None, None, None>>}
DeviceArgs ==
    (ClassNames \X StudentIds \X Addresses)
        \cup {<<"", "1", "BB:02">>, <<"CSCI-101", "", "BB:02">>, <<"CSCI-101", "1", "">>}
StudentCallArgs ==
    (ClassNames \X StudentIds) \cup {<<"", "1">>, <<"CSCI-101", "">>}
Snapshots == SUBSET Macs

\* The outcomes of every facade call that changes the registry, on the
\* registry cls at time current_time.
Calls(cls, current_time) ==
    {add_class(cls, c) : c \in AddClassArgs}
    \cup {delete_class(cls, c) : c \in AddClassArgs}
    \cup {add_student_to_class(cls, x[1], x[2], x[3], x[4]) : x \in AddStudentArgs}
    \cup {assign_device_to_student(cls, x[1], x[2], x[3]) : x \in DeviceArgs}
    \cup {remove_mac_from_student(cls, x[1], x[2], x[3]) : x \in DeviceArgs}
    \cup {mark_student_present(cls, x[1], x[2], current_time) : x \in StudentCallArgs}
    \cup {mark_student_absent(cls, x[1], x[2]) : x \in StudentCallArgs}
    \cup {delete_student(cls, x[1], x[2]) : x \in StudentCallArgs}
    \cup {update_attendance_call(cls, found, current_time) : found \in Snapshots}

Next ==
    \/ \E c \in AddClassArgs : AddClass(c)
    \/ \E c \in AddClassArgs : DeleteClass(c)
    \/ \E x \in AddStudentArgs : AddStudentToClass(x[1], x[2], x[3], x[4])
    \/ \E x \in DeviceArgs : AssignDeviceToStudent(x[1], x[2], x[3])
    \/ \E x \in DeviceArgs : RemoveMacFromStudent(x[1], x[2], x[3])
    \/ \E x \in StudentCallArgs : MarkStudentPresent(x[1], x[2])
    \/ \E x \in StudentCallArgs : MarkStudentAbsent(x[1], x[2])
    \/ \E x \in StudentCallArgs : DeleteStudent(x[1], x[2])
    \/ \E found \in Snapshots : UpdateAttendance(found)

Spec == Init /\ [][Next]_vars

-----------------------------------------------------------------------------
(* Two threads: assign_device_to_student and update_attendance statement by
   statement, each inside "with self.lock" *)

\* The caller passes the validation of the arguments, outside the lock.
AssignEnter(class_name, student_id, addr) ==
    /\ call.pc = "idle"
    /\ class_name # "" /\ student_id # "" /\ addr # ""
    /\ call' = [pc |-> "acquire", class_name |-> class_name,
                student_id |-> student_id, addr |-> addr, prev |-> {}]
    /\ UNCHANGED <<classes, now, sticky, lock, cycle, store, scanner>>

\* "with self.lock:", then the check that the class exists.
AssignAcquire ==
    /\ up
    /\ call.pc = "acquire"
    /\ can_acquire(lock, Caller)
    /\ Cardinality(AllPairs(classes) \cup {<<call.class_name, call.student_id>>})
           <= MaxStudents
    /\ lock' = Caller
    /\ call' = [call EXCEPT
           !.pc = IF call.class_name \in DOMAIN classes THEN "unbind" ELSE "raise",
           !.prev = holders(classes, upper(call.addr))
                        \ {<<call.class_name, call.student_id>>}]
    /\ UNCHANGED <<classes, now, sticky, cycle, store, scanner>>

\* The loop that removes the address from every other holder.
AssignUnbind ==
    /\ call.pc = "unbind"
    /\ classes' = unbind_other_holders(classes, call.class_name, call.student_id,
                                       upper(call.addr))
    /\ sticky' = sticky \ call.prev
    /\ call' = [call EXCEPT !.pc = "bind"]
    /\ UNCHANGED <<now, lock, cycle, store, scanner>>

\* The address is added to the new holder, whose override is reset.
AssignBind ==
    /\ call.pc = "bind"
    /\ call.class_name \in DOMAIN classes
    /\ classes' = bind_new_holder(classes, call.class_name, call.student_id,
                                  upper(call.addr))
    /\ sticky' = sticky \ {<<call.class_name, call.student_id>>}
    /\ call' = [call EXCEPT !.pc = "save"]
    /\ UNCHANGED <<now, lock, cycle, store, scanner>>

\* save_data, then the end of the with block; or the ValueError leaving it.
AssignExit ==
    /\ call.pc \in {"save", "raise"}
    /\ Finish(IF call.pc = "save" THEN Saved(classes) ELSE Raised(classes))
    /\ lock' = IF lock = Caller THEN NoThread ELSE lock
    /\ call' = NoCall
    /\ UNCHANGED <<now, sticky, cycle, scanner>>

\* update_attendance on the second thread: "with self.lock:".
CycleAcquire(found_devices) ==
    /\ up
    /\ cycle.pc = "idle"
    /\ can_acquire(lock, Second)
    /\ lock' = Second
    /\ cycle' = [pc |-> "loop", found_devices |-> found_devices, todo |-> DOMAIN classes]
    /\ UNCHANGED <<classes, now, sticky, call, store, scanner>>

\* One iteration of "for class_name, class_data in self.classes.items()".
CycleClass ==
    /\ cycle.pc = "loop"
    /\ \E cname \in cycle.todo \cap DOMAIN classes :
          /\ Finish(Saved([classes EXCEPT ![cname] =
                 [classes[cname] EXCEPT
                     !.present_students = newly_present(classes[cname], cycle.found_devices),
                     !.attendance_timestamps =
                         new_timestamps(classes[cname], cycle.found_devices, now)]]))
          /\ cycle' = [cycle EXCEPT !.todo = cycle.todo \ {cname}]
    /\ UNCHANGED <<now, sticky, lock, call, scanner>>

\* The loop is over: the with block ends.
CycleExit ==
    /\ cycle.pc = "loop"
    /\ cycle.todo \cap DOMAIN classes = {}
    /\ lock' = IF lock = Second THEN NoThread ELSE lock
    /\ cycle' = NoCycle
    /\ UNCHANGED <<classes, now, sticky, call, store, scanner>>

NextLocked ==
    \/ \E c \in ClassNames, s \in StudentIds \cup {None}, a \in Addresses \cup {None} :
          AddStudentToClass(c, "Ada", s, a)
    \/ \E c \in ClassNames, s \in StudentIds, a \in Addresses : AssignEnter(c, s, a)
    \/ AssignAcquire
    \/ AssignUnbind
    \/ AssignBind
    \/ AssignExit
    \/ \E found \in Snapshots : CycleAcquire(found)
    \/ CycleClass
    \/ CycleExit

SpecLocked == Init /\ [][NextLocked]_vars

-----------------------------------------------------------------------------
(* The GUI's device assignment on the Tk main thread, next to the import
   worker thread *)

\* The import worker enters add_class or add_student_to_class: "with
\* self.lock:".
ImportAcquire(class_name, method) ==
    /\ up
    /\ cycle.pc = "idle"
    /\ can_acquire(lock, Second)
    /\ lock' = Second
    /\ cycle' = [pc |-> method, found_devices |-> {}, todo |-> {class_name}]
    /\ UNCHANGED <<classes, now, sticky, call, store, scanner>>

\* The body of the worker's call and the end of its with block.
ImportCall ==
    /\ cycle.pc \in {"add_class", "add_student_to_class"}
    /\ \E class_name \in cycle.todo :
           LET r == IF cycle.pc = "add_class"
                    THEN add_class(classes, class_name)
                    ELSE add_student_to_class(classes, class_name, "Ada", None, None)
           IN /\ Cardinality(AllPairs(r.classes)) <= MaxStudents
              /\ Finish(r)
    /\ lock' = IF lock = Second THEN NoThread ELSE lock
    /\ cycle' = NoCycle
    /\ UNCHANGED <<now, sticky, call, scanner>>

\* A manual mark from the GUI, between two of its callbacks.
GuiMarkStudentPresent(class_name, student_id) ==
    /\ call.pc = "idle"
    /\ MarkStudentPresent(class_name, student_id)

\* assign_device of show_device_combobox, up to the return of
\* get_student_data: assign_device_to_student when a device was chosen, then
\* get_student_data, each inside "with self.lock"; an exception of the first
\* ends the callback.
GuiAssignDevice(class_name, student_id, device_address) ==
    LET r == IF device_address # ""
             THEN assign_device_to_student(classes, class_name, student_id, device_address)
             ELSE [classes |-> classes, raised |-> FALSE, saved |-> FALSE]
        student_data ==
            class_name \in DOMAIN r.classes
                /\ student_id \in DOMAIN r.classes[class_name].students
    IN /\ up
       /\ call.pc = "idle"
       /\ can_acquire(lock, Caller)
       /\ Cardinality(AllPairs(r.classes)) <= MaxStudents
       /\ Finish(r)
       /\ sticky' = IF r.raised \/ device_address = "" THEN sticky
                    ELSE sticky \ ({<<class_name, student_id>>}
                                   \cup holders(classes, upper(device_address)))
       /\ call' = IF ~r.raised /\ student_data
                  THEN [NoCall EXCEPT !.pc = "reset", !.class_name = class_name,
                                      !.student_id = student_id]
                  ELSE NoCall
       /\ UNCHANGED <<now, lock, cycle, scanner>>

\* student_data['manual_override'] = False, on the dictionary
\* get_student_data returned: no lock is taken.
GuiResetOverride ==
    /\ up
    /\ call.pc = "reset"
    /\ classes' =
           IF call.class_name \in DOMAIN classes
                  /\ call.student_id \in DOMAIN classes[call.class_name].students
           THEN [classes EXCEPT
                    ![call.class_name].students[call.student_id].manual_override = FALSE]
           ELSE classes
    /\ sticky' = sticky \ {<<call.class_name, call.student_id>>}
    /\ call' = [call EXCEPT !.pc = "save_data"]
    /\ UNCHANGED <<now, lock, cycle, store, scanner>>

\* self.attendance_manager.save_data(), inside "with self.lock".
GuiSaveData ==
    /\ up
    /\ call.pc = "save_data"
    /\ can_acquire(lock, Caller)
    /\ Finish(Saved(classes))
    /\ call' = NoCall
    /\ UNCHANGED <<now, sticky, lock, cycle, scanner>>

NextGui ==
    \/ \E c \in ClassNames, method \in {"add_class", "add_student_to_class"} :
          ImportAcquire(c, method)
    \/ ImportCall
    \/ \E c \in ClassNames, s \in StudentIds : GuiMarkStudentPresent(c, s)
    \/ \E c \in ClassNames, s \in StudentIds, a \in {"aa:01", ""} : GuiAssignDevice(c, s, a)
    \/ GuiResetOverride
    \/ GuiSaveData

SpecGui == Init /\ [][NextGui]_vars

-----------------------------------------------------------------------------
(* The registry and its data file: failing writes, crashes and restarts *)

SetScanInterval(new_interval) ==
    /\ WithLock
    /\ current_scan_interval' =
           set_scan_interval(current_scan_interval, new_interval).current_scan_interval
    /\ UNCHANGED <<classes, now, sticky, data_file, disk, up, applied>>

DeleteDatabase ==
    LET r == delete_database(classes, data_file, disk)
    IN /\ WithLock
       /\ classes' = r.classes
       /\ data_file' = r.data_file
       /\ sticky' = {}
       /\ applied' = IF r.data_file = Missing THEN FALSE ELSE applied
       /\ UNCHANGED <<now, current_scan_interval, disk, up>>

\* save_data called on its own, as the GUI does after assigning a device.
SaveData ==
    /\ WithLock
    /\ Finish(Saved(classes))
    /\ UNCHANGED <<now, sticky>>

\* The file system changes how it answers the next writes.
DiskChange(mode) ==
    /\ up
    /\ disk # mode
    /\ disk' = mode
    /\ UNCHANGED <<classes, now, sticky, threads, data_file, current_scan_interval, up, applied,
                   scanner>>

\* The process dies between two calls.
Crash ==
    /\ up
    /\ up' = FALSE
    /\ UNCHANGED <<classes, now, sticky, threads, data_file, current_scan_interval, disk, applied,
                   scanner>>

\* The application is started again: AttendanceManager() runs load_data.
Restart ==
    /\ ~up
    /\ up' = TRUE
    /\ classes' = load_data(data_file).classes
    /\ current_scan_interval' = loaded_scan_interval(data_file)
    /\ applied' = (classes' # EmptyDict)
    /\ sticky' = {}
    /\ lock' = NoThread
    /\ call' = NoCall
    /\ cycle' = NoCycle
    /\ scanner' = Scanner__init__
    /\ UNCHANGED <<now, data_file, disk>>

\* add_student_to_class while the registry holds fewer than MaxStored students.
AddStoredStudent(device_address) ==
    /\ Cardinality(AllPairs(classes)) < MaxStored
    /\ AddStudentToClass("CSCI-101", "Ada", None, device_address)

NextStore ==
    \/ AddClass("CSCI-101")
    \/ \E a \in {None, "aa:01"} : AddStoredStudent(a)
    \/ \E s \in StudentIds : MarkStudentPresent("CSCI-101", s)
    \/ \E s \in StudentIds : DeleteStudent("CSCI-101", s)
    \/ \E found \in Snapshots : UpdateAttendance(found)
    \/ \E n \in ScanIntervalArgs : SetScanInterval(n)
    \/ DeleteDatabase
    \/ SaveData
    \/ \E mode \in DiskModes : DiskChange(mode)
    \/ Crash
    \/ Restart

SpecStore == Init /\ [][NextStore]_vars

-----------------------------------------------------------------------------
(* The registry under a running clock: scan cycles and manual marks at
   different times *)

NextClock ==
    \/ Tick
    \/ \E c \in ClassNames, a \in Addresses \cup {None} : AddStudentToClass(c, "Ada", None, a)
    \/ \E x \in StudentCallArgs : MarkStudentPresent(x[1], x[2])
    \/ \E x \in StudentCallArgs : MarkStudentAbsent(x[1], x[2])
    \/ \E found \in Snapshots : UpdateAttendance(found)

SpecClock == Init /\ [][NextClock]_vars

-----------------------------------------------------------------------------
(* The attendance count: the registry under a running clock and a changing
   scan interval *)

NextCount ==
    \/ NextClock
    \/ \E n \in ScanIntervalArgs : SetScanInterval(n)

SpecCount == Init /\ [][NextCount]_vars

-----------------------------------------------------------------------------
(* The scanner: its threads, its settings and the snapshots the scan loop
   hands to update_attendance *)

\* Scanner.start_scanning, called by toggle_scanning or by any other caller.
StartScanning ==
    /\ up
    /\ scanner.scanning \/ Len(scanner.loops) < MaxThreads
    /\ scanner' = start_scanning(scanner)
    /\ UNCHANGED <<classes, now, sticky, threads, store>>

\* Scanner.stop_scanning.
StopScanning ==
    /\ up
    /\ scanner' = stop_scanning(scanner)
    /\ UNCHANGED <<classes, now, sticky, threads, store>>

\* AttendanceApp.update_scan_interval: the Scanner first, the manager second;
\* the manager's ValueError reaches the caller after both have refused.
UpdateScanInterval(new_interval) ==
    /\ up
    /\ settings_lock_free(scanner)
    /\ scanner' = update_scan_interval(scanner, new_interval)
    /\ current_scan_interval' =
           set_scan_interval(current_scan_interval, new_interval).current_scan_interval
    /\ UNCHANGED <<classes, now, sticky, threads, data_file, disk, up, applied>>

\* Scanner.update_rssi_threshold, called when the signal-strength setting
\* is written.
UpdateRssiThreshold(new_threshold) ==
    /\ up
    /\ settings_lock_free(scanner)
    /\ scanner' = update_rssi_threshold(scanner, new_threshold)
    /\ UNCHANGED <<classes, now, sticky, threads, store>>

\* Thread i tests the while condition.
LoopCheck(i) ==
    /\ up
    /\ i \in DOMAIN scanner.loops
    /\ scanner.loops[i].pc = "check"
    /\ scanner' = [scanner EXCEPT !.loops[i] = loop_check(scanner, @)]
    /\ UNCHANGED <<classes, now, sticky, threads, store>>

\* Thread i runs one scan: discover() outside every lock, the settings read
\* inside "with self.lock", the filter, and the callback, which schedules the
\* snapshot with master.after(0, self._on_scan_results, found_devices).
LoopDiscover(i, outcome) ==
    /\ up
    /\ i \in DOMAIN scanner.loops
    /\ scanner.loops[i].pc = "discover"
    /\ LET d == snapshot_delivered(scanner.loops[i], outcome, scanner.rssi_threshold)
       IN /\ d.called => Len(scanner.scheduled) < MaxScheduled
          /\ scanner' = [scanner EXCEPT
                 !.loops[i] = loop_discover(@, outcome, scanner.rssi_threshold),
                 !.scheduled = IF d.called THEN Append(@, d.found_devices) ELSE @]
    /\ UNCHANGED <<classes, now, sticky, threads, store>>

\* _on_scan_results on the Tk main thread: the oldest scheduled snapshot is
\* passed to update_attendance.
OnScanResults ==
    /\ up
    /\ can_acquire(lock, Second)
    /\ cycle.pc = "idle"
    /\ scanner.scheduled # <<>>
    /\ Finish(update_attendance_call(classes, Head(scanner.scheduled), now))
    /\ scanner' = [scanner EXCEPT !.scheduled = Tail(@)]
    /\ UNCHANGED <<now, sticky, threads>>

\* The sleep of thread i ends.
LoopSleep(i) ==
    /\ up
    /\ i \in DOMAIN scanner.loops
    /\ scanner.loops[i].pc = "sleep"
    /\ scanner' = [scanner EXCEPT !.loops[i] = loop_sleep(@)]
    /\ UNCHANGED <<classes, now, sticky, threads, store>>

LoopStep(i) ==
    \/ LoopCheck(i)
    \/ \E outcome \in ScanOutcomes : LoopDiscover(i, outcome)
    \/ LoopSleep(i)

NextScan ==
    \/ \E a \in {None, "aa:01"} : AddStoredStudent(a)
    \/ \E s \in StudentIds : MarkStudentPresent("CSCI-101", s)
    \/ StartScanning
    \/ StopScanning
    \/ \E i \in 1..MaxThreads : LoopStep(i)
    \/ OnScanResults

SpecScan == Init /\ [][NextScan]_vars

\* The scanner alone, started and stopped over an empty registry.
NextThreads ==
    \/ StartScanning
    \/ StopScanning
    \/ \E i \in 1..MaxThreads : LoopStep(i)
    \/ OnScanResults

\* The scan threads are daemon threads the operating system keeps running:
\* a thread that can take its next step takes it.
SpecScanFair ==
    Init /\ [][NextThreads]_vars /\ \A i \in 1..MaxThreads : WF_vars(LoopStep(i))

\* The scanner and its two settings: the interval and the signal-strength
\* floor are written from the Tk main thread while the scan threads run.
NextSettings ==
    \/ NextThreads
    \/ \E n \in ScanIntervalArgs : UpdateScanInterval(n)
    \/ \E t \in RssiThresholds : UpdateRssiThreshold(t)

SpecSettings == Init /\ [][NextSettings]_vars

\* One scan loop next to the calls that bind and rebind the device it finds:
\* a snapshot waits on the Tk main thread while the registry changes.
NextStale ==
    \/ \E s \in StudentIds, a \in {None, "aa:01"} :
          AddStudentToClass("CSCI-101", "Ada", s, a)
    \/ \E s \in StudentIds : AssignDeviceToStudent("CSCI-101", s, "aa:01")
    \/ \E s \in StudentIds : MarkStudentPresent("CSCI-101", s)
    \/ StartScanning
    \/ \E i \in 1..MaxThreads : LoopStep(i)
    \/ OnScanResults

SpecStale == Init /\ [][NextStale]_vars

-----------------------------------------------------------------------------
(* Vocabulary of the properties *)

is_present(cls, p) == p[2] \in cls[p[1]].present_students
has_timestamp(cls, p) == p[2] \in DOMAIN cls[p[1]].attendance_timestamps
is_overridden(cls, p) == manual_override(cls[p[1]], p[2])
bound_macs(cls, p) == IF p[1] \in DOMAIN cls THEN macs_of(cls[p[1]], p[2]) ELSE {}

\* The pairs holding a device ID once the stored addresses are upper-cased.
holders_upper(cls, d) == {p \in AllPairs(cls) : \E m \in bound_macs(cls, p) : upper(m) = d}

\* The call assign_device_to_student(c, s, a) returned normally in this step.
AssignReturned(c, s, a) ==
    /\ AssignDeviceToStudent(c, s, a)
    /\ ~assign_device_to_student(classes, c, s, a).raised

-----------------------------------------------------------------------------
(* C1: in every reachable state each device ID, compared after upper-casing,
   is in the MAC set of at most one (class, student) pair over all classes. *)
C1_BindingUniqueness ==
    \A d \in Macs : Cardinality(holders_upper(classes, d)) <= 1

\* A device has its one holder in one class while a student of the other
\* class, whose binding-table entry was emptied, holds nothing.
C1_Witness ==
    \E d \in Macs : \E p \in holders_upper(classes, d) : \E q \in AllPairs(classes) :
        /\ q[1] # p[1]
        /\ q[2] \in DOMAIN classes[q[1]].student_mac_addresses
        /\ bound_macs(classes, q) = {}
        /\ holders_upper(classes, d) = {p}

(* C2: once mark_student_present(c, s) has succeeded, and until s's binding is
   changed or s is marked absent, an update_attendance whose snapshot holds
   none of s's devices leaves s in the present set. *)
C2_OverrideSticky ==
    [][\A found \in Snapshots :
          UpdateAttendance(found) =>
              \A p \in sticky :
                  bound_macs(classes, p) \cap found = {} => is_present(classes', p)]_vars

(* C3: in every reachable state and every class, a student ID is in
   present_students exactly when it has an entry in attendance_timestamps. *)
C3_PresenceTimestampCoupling ==
    \A c \in DOMAIN classes :
        classes[c].present_students = DOMAIN classes[c].attendance_timestamps

\* One student is present with a timestamp while another student of the
\* roster, under manual override, is absent without one.
C3_Witness ==
    \E p \in AllPairs(classes), q \in InRoster(classes, AllPairs(classes)) :
        /\ p # q
        /\ is_present(classes, p) /\ has_timestamp(classes, p)
        /\ is_overridden(classes, q)
        /\ ~is_present(classes, q) /\ ~has_timestamp(classes, q)

(* C4: when assign_device_to_student binds a device held by A to a different
   (class, student) B, then on return A does not hold the device, A is not
   present and has no timestamp, and B is the only holder. *)
C4_ReassignClearsPrevious ==
    \A c \in ClassNames, s \in StudentIds, a \in Addresses :
        \A A \in holders(classes, upper(a)) \ {<<c, s>>} :
            LET r == assign_device_to_student(classes, c, s, a)
            IN ~r.raised =>
                   /\ upper(a) \notin bound_macs(r.classes, A)
                   /\ ~is_present(r.classes, A)
                   /\ ~has_timestamp(r.classes, A)
                   /\ holders_upper(r.classes, upper(a)) = {<<c, s>>}

\* B is the only holder of a device; A, a roster member of the other class
\* with a binding-table entry, does not hold it and is absent.
C4_Witness ==
    \E d \in Macs : \E B \in holders(classes, d) :
        \E A \in InRoster(classes, AllPairs(classes)) :
            /\ A[1] # B[1]
            /\ holders(classes, d) = {B}
            /\ A[2] \in DOMAIN classes[A[1]].student_mac_addresses
            /\ bound_macs(classes, A) = {}
            /\ ~is_present(classes, A) /\ ~has_timestamp(classes, A)
            /\ B \in InRoster(classes, {B})

(* C5: when a device held by student A is reassigned to a different student
   B, A's manual_override is false when the call returns. *)
C5_ReassignResetsPreviousOverride ==
    [][\A c \in ClassNames, s \in StudentIds, a \in Addresses :
          \A A \in holders(classes, upper(a)) \ {<<c, s>>} :
              (AssignReturned(c, s, a) /\ <<c, s>> \in InRoster(classes, {<<c, s>>}))
                  => ~is_overridden(classes', A)]_vars

(* C7: when assign_device_to_student adds a device to a student, or
   remove_mac_from_student removes one from a student, that student's
   manual_override is false on return. *)
C7_BindingChangeResetsOverride ==
    [][\A c \in ClassNames, s \in StudentIds, a \in Addresses :
          /\ AssignReturned(c, s, a) => ~is_overridden(classes', <<c, s>>)
          /\ (RemoveMacFromStudent(c, s, a) /\ upper(a) \in bound_macs(classes, <<c, s>>))
                 => ~is_overridden(classes', <<c, s>>)]_vars

(* C8: remove_mac_from_student(c, s, d) removes the binding only if d is bound
   to s, and then s is absent without a timestamp on return; otherwise
   bindings, presence and timestamps are unchanged. *)
C8_RemoveMacClearsPresence ==
    [][\A c \in ClassNames, s \in StudentIds, a \in Addresses :
          RemoveMacFromStudent(c, s, a) =>
              IF upper(a) \in bound_macs(classes, <<c, s>>)
              THEN /\ upper(a) \notin bound_macs(classes', <<c, s>>)
                   /\ ~is_present(classes', <<c, s>>)
                   /\ ~has_timestamp(classes', <<c, s>>)
              ELSE classes' = classes]_vars

(* C9: a student present by manual mark whose device binding changes becomes
   absent, without a timestamp and with manual_override false. *)
C9_ManualToAbsentOnBindingChange ==
    [][\A p \in InRoster(classes, AllPairs(classes)) :
          (/\ is_overridden(classes, p) /\ is_present(classes, p)
           /\ p \in InRoster(classes', {p})
           /\ bound_macs(classes', p) # bound_macs(classes, p))
          => /\ ~is_present(classes', p)
             /\ ~has_timestamp(classes', p)
             /\ ~is_overridden(classes', p)]_vars

(* C10: after update_attendance(snapshot), every student who was not both
   under manual override and present before the call is present exactly when
   one of the student's bound devices is in the snapshot. *)
C10_AutomaticPresence ==
    \A found \in Snapshots :
        LET after == update_attendance(classes, found, now)
        IN \A p \in AllPairs(classes) :
               ~(is_overridden(classes, p) /\ is_present(classes, p)) =>
                   (is_present(after, p) <=> bound_macs(classes, p) \cap found # {})

(* C10 as amended: after update_attendance(snapshot), every student who was
   not under manual override before the call is present exactly when one of
   the student's bound devices is in the snapshot. *)
C10_AutomaticPresenceAmended ==
    \A found \in Snapshots :
        LET after == update_attendance(classes, found, now)
        IN \A p \in AllPairs(classes) :
               ~is_overridden(classes, p) =>
                   (is_present(after, p) <=> bound_macs(classes, p) \cap found # {})

\* A student not under manual override is present with a bound device, as a
\* cycle leaves it, next to a student under manual override who holds a
\* device and is absent.
C10_Witness ==
    \E p \in InRoster(classes, AllPairs(classes)), q \in InRoster(classes, AllPairs(classes)) :
        /\ ~is_overridden(classes, p) /\ is_present(classes, p)
        /\ bound_macs(classes, p) # {}
        /\ is_overridden(classes, q) /\ ~is_present(classes, q)
        /\ bound_macs(classes, q) # {}

(* C6: reassigning a device from A to B is atomic: whenever the device is
   bound to both or to neither, the caller owns the lock and no reconcile
   cycle is running; a cycle and the reassignment are never both inside their
   locked regions; and in the final state of the call, before it returns or
   raises, the device has exactly one holder. *)
C6_InCall == call.pc \in {"unbind", "bind", "save", "raise"}

C6_ReassignAtomic ==
    /\ (/\ C6_InCall /\ call.prev # {}
        /\ Cardinality(holders_upper(classes, upper(call.addr))) # 1)
           => (lock = Caller /\ cycle.pc = "idle")
    /\ ~(C6_InCall /\ cycle.pc = "loop")
    /\ (call.pc \in {"save", "raise"} /\ call.prev # {})
           => Cardinality(holders_upper(classes, upper(call.addr))) = 1

\* The window inside the call: the previous holder has lost the device, the
\* new holder does not have it yet, and the second thread is kept out.
C6_Witness ==
    /\ call.pc = "bind"
    /\ call.prev # {}
    /\ holders_upper(classes, upper(call.addr)) = {}
    /\ lock = Caller
    /\ cycle.pc = "idle"

(* C11: a student under manual override who is absent is not made present by
   an update_attendance cycle, whatever the snapshot holds, and is still
   under manual override after it. *)
C11_OverrideAbsentImmune ==
    \A found \in Snapshots :
        LET after == update_attendance(classes, found, now)
        IN \A p \in InRoster(classes, AllPairs(classes)) :
               (is_overridden(classes, p) /\ ~is_present(classes, p)) =>
                   (~is_present(after, p) /\ is_overridden(after, p))

\* A student under manual override is absent although a cycle whose snapshot
\* holds one of the student's devices has run: the state is what that cycle
\* leaves.
C11_Witness ==
    \E p \in InRoster(classes, AllPairs(classes)) : \E found \in Snapshots :
        /\ is_overridden(classes, p) /\ ~is_present(classes, p)
        /\ bound_macs(classes, p) \cap found # {}
        /\ update_attendance(classes, found, now) = classes
        /\ data_file = pickle_dump(classes)

(* C12: a student who is present before an update_attendance cycle and
   present after it has the same timestamp after the cycle as before,
   whatever the time of the cycle: re-detection never resets it. *)
C12_TimestampKept ==
    \A found \in Snapshots : \A t \in now..MaxTime :
        LET after == update_attendance(classes, found, t)
        IN \A p \in AllPairs(classes) :
               (is_present(classes, p) /\ is_present(after, p)) =>
                   /\ has_timestamp(classes, p) /\ has_timestamp(after, p)
                   /\ after[p[1]].attendance_timestamps[p[2]]
                          = classes[p[1]].attendance_timestamps[p[2]]

\* Two detected students: one first seen at an earlier time and still present
\* with that timestamp, the other first seen now; the state is what a cycle
\* detecting both leaves.
C12_Witness ==
    \E p \in AllPairs(classes), q \in AllPairs(classes) : \E found \in Snapshots :
        /\ ~is_overridden(classes, p) /\ ~is_overridden(classes, q)
        /\ is_present(classes, p) /\ is_present(classes, q)
        /\ has_timestamp(classes, p) /\ has_timestamp(classes, q)
        /\ classes[p[1]].attendance_timestamps[p[2]] < now
        /\ classes[q[1]].attendance_timestamps[q[2]] = now
        /\ bound_macs(classes, p) \cap found # {}
        /\ bound_macs(classes, q) \cap found # {}
        /\ update_attendance(classes, found, now) = classes

(* C13: update_attendance returns true exactly when the presence flag of at
   least one student differs between the state before and the state after
   the call, and false otherwise. *)
C13_ReturnsWhetherChanged ==
    \A found \in Snapshots :
        LET after == update_attendance(classes, found, now)
            changed == \E p \in AllPairs(classes) :
                           is_present(after, p) # is_present(classes, p)
        IN bool(update_attendance_returns(classes, found, now)) <=> changed

(* C14: when a mutating call returns successfully while writes of the data
   file succeed, what a fresh manager would load from the data file equals
   the state in memory: the registry, and the scan interval after a
   scan-interval change. *)
C14_SavedAfterEveryMutation ==
    disk = "ok" =>
        /\ \A r \in Calls(classes, now) :
               LET f == after_call(r, data_file, disk)
               IN (~f.raised /\ r.classes # classes) =>
                      load_data(f.data_file).classes = f.classes
        /\ \A n \in ScanIntervalArgs :
               LET r == set_scan_interval(current_scan_interval, n)
               IN ~r.raised => loaded_scan_interval(data_file) = r.current_scan_interval

(* C15: whenever the process is down and the last mutation that was applied
   and saved left a registry that is not empty, load_data on the data file
   does not yield the empty registry. *)
C15_CrashRecovery ==
    (~up /\ applied) => load_data(data_file).classes # EmptyDict

(* C16: save_data followed by load_data in a fresh manager reproduces the
   registry and the scan interval. *)
C16_SaveLoadRoundTrip ==
    LET file == save_data(classes, data_file, "ok").data_file
    IN /\ load_data(file).classes = classes
       /\ loaded_scan_interval(file) = current_scan_interval

(* C17: while the process runs, a failing write in save_data never reaches
   the caller: the call that triggered it returns normally with its change of
   the registry applied; load_data on a missing or undeserializable file does
   not raise and leaves the empty registry. *)
C17_WriteFailureNotPropagated ==
    /\ up => \A r \in Calls(classes, now) : \A mode \in {"open_fails", "dump_fails"} :
                 LET f == after_call(r, data_file, mode)
                 IN ~r.raised => (~f.raised /\ ~f.died /\ f.classes = r.classes)
    /\ \A file \in {Missing, Partial, data_file} :
           /\ ~load_data(file).raised
           /\ file.kind # "pickle" => load_data(file).classes = EmptyDict

\* The process runs on with a registry that is not empty after a write that
\* failed half way: the data file is unreadable and loads as the empty registry.
C17_Witness ==
    /\ up
    /\ disk \in {"open_fails", "dump_fails"}
    /\ data_file = Partial
    /\ classes # EmptyDict
    /\ load_data(data_file).classes = EmptyDict

(* C18: every facade call on the running manager that raises a validation
   error leaves the registry (classes, rosters, bindings, present sets,
   timestamps, override flags), the data file and the scan interval as they
   were before the call. *)
C18_ValidationLeavesState ==
    /\ up => \A r \in Calls(classes, now) :
                 r.raised => /\ r.classes = classes
                             /\ after_call(r, data_file, disk).data_file = data_file
    /\ \A n \in ScanIntervalArgs :
           LET r == set_scan_interval(current_scan_interval, n)
           IN r.raised => r.current_scan_interval = current_scan_interval

\* A device is held by a student while a class name is unknown, so that calls
\* on the unknown class raise, and the scan interval is not the initial one.
C18_Witness ==
    /\ up
    /\ \E d \in Macs : holders_upper(classes, d) # {}
    /\ ClassNames \ DOMAIN classes # {}
    /\ current_scan_interval # InitialScanInterval
    /\ \E r \in Calls(classes, now) : r.raised

(* C19: in every reachable state every student ID that holds a bound device
   in the binding table of a class is in the roster of that class. *)
C19_NoOrphanBindings ==
    \A p \in AllPairs(classes) :
        bound_macs(classes, p) # {} => p \in InRoster(classes, {p})

(* C20: add_class on an existing class name, delete_class on a class name
   that does not exist, and mark_student_present on a student who is not in
   the roster each raise. *)
C20_FailuresReported ==
    /\ \A c \in DOMAIN classes : add_class(classes, c).raised
    /\ \A c \in DOMAIN classes : \A s \in StudentIds \ DOMAIN classes[c].students :
           mark_student_present(classes, c, s, now).raised
    /\ \A c \in ClassNames \ DOMAIN classes : delete_class(classes, c).raised

\* The devices of the students in gone have no holder in cls, and each can be
\* bound to any student of a roster of cls, who then is its one holder.
devices_released(cls, devices) ==
    \A d \in devices :
        /\ get_student_by_mac(cls, d) = <<None, None>>
        /\ \A q \in InRoster(cls, AllPairs(cls)) :
               LET a == assign_device_to_student(cls, q[1], q[2], d)
               IN ~a.raised /\ holders_upper(a.classes, upper(d)) = {q}

(* C21: after delete_student(c, s) or delete_class(c) has succeeded, no
   binding, present-set entry or timestamp of a removed student remains,
   get_student_by_mac finds no holder for a device a removed student held,
   and each such device can be bound to another student. *)
C21_DeleteCascades ==
    \A c \in DOMAIN classes :
        /\ \A s \in DOMAIN classes[c].students :
               LET r == delete_student(classes, c, s)
               IN /\ ~r.raised
                  /\ s \notin tracked(r.classes[c])
                  /\ s \notin r.classes[c].present_students
                  /\ s \notin DOMAIN r.classes[c].attendance_timestamps
                  /\ devices_released(r.classes, macs_of(classes[c], s))
        /\ LET r == delete_class(classes, c)
           IN /\ ~r.raised
              /\ c \notin DOMAIN r.classes
              /\ \A s \in tracked(classes[c]) :
                     devices_released(r.classes, macs_of(classes[c], s))

\* A present, timestamped student holds a device while the other class has a
\* student who could take the device over; the first student's class is
\* about to be deleted or the student removed.
C21_Witness ==
    \E c \in DOMAIN classes : \E s \in DOMAIN classes[c].students :
        /\ macs_of(classes[c], s) # {}
        /\ s \in classes[c].present_students
        /\ s \in DOMAIN classes[c].attendance_timestamps
        /\ \E c2 \in DOMAIN classes \ {c} : DOMAIN classes[c2].students # {}
        /\ ~delete_student(classes, c, s).raised
        /\ ~delete_class(classes, c).raised

\* The decimal strings of the positive integers an ID generator can reach.
DecimalIds == {str(n) : n \in 1..(MaxStudents + 1)}

\* The roster of a class, empty for a class that does not exist yet.
roster(cls, class_name) ==
    IF class_name \in DOMAIN cls THEN DOMAIN cls[class_name].students ELSE {}

(* C22: add_student_to_class without a student_id stores the student under a
   decimal-string ID that no student of the class had, so that every record
   the class had is kept as it was, and the first student added to an empty
   class gets the ID "1". *)
C22_FreshStudentId ==
    \A c \in ClassNames : \A a \in Addresses \cup {None} :
        LET r == add_student_to_class(classes, c, "Ada", None, a)
            before == roster(classes, c)
            after == roster(r.classes, c)
        IN /\ ~r.raised
           /\ before \subseteq after
           /\ Cardinality(after \ before) = 1
           /\ after \ before \subseteq DecimalIds
           /\ \A s \in before : r.classes[c].students[s] = classes[c].students[s]
           /\ before = {} => after = {"1"}

\* A class whose roster lost its student "1" and kept "2": the next generated
\* ID has to fill the gap without touching "2".
C22_Witness ==
    \E c \in DOMAIN classes :
        /\ roster(classes, c) = {"2"}
        /\ roster(add_student_to_class(classes, c, "Ada", None, None).classes, c)
               = {"1", "2"}

\* The names an update of an existing record may supply.
UpsertNames == Names \cup {"Grace"}

(* C23: add_student_to_class with the ID of a student of the class and no
   device address stores the supplied fields in that student's record and
   leaves the student's bindings, presence, timestamp and manual_override,
   and every other student of every class, unchanged. *)
C23_UpsertFrame ==
    \A c \in DOMAIN classes : \A s \in DOMAIN classes[c].students :
        \A name \in UpsertNames :
            LET r == add_student_to_class(classes, c, name, s, None)
            IN /\ ~r.raised
               /\ r.classes[c].students[s].name = name
               /\ r.classes = [classes EXCEPT ![c].students[s].name = name]

\* A student under manual override, present with a timestamp and with a bound
\* device, shares the class with a second student: the record to be updated
\* has every field the update must keep.
C23_Witness ==
    \E c \in DOMAIN classes : \E s \in DOMAIN classes[c].students :
        /\ manual_override(classes[c], s)
        /\ s \in classes[c].present_students
        /\ s \in DOMAIN classes[c].attendance_timestamps
        /\ macs_of(classes[c], s) # {}
        /\ DOMAIN classes[c].students # {s}
        /\ add_student_to_class(classes, c, "Grace", s, None).classes # classes

(* C24: get_attendance_count returns 0 for a student with no timestamp and
   max(1, floor(elapsed seconds / current scan interval)) for a present
   student, so it is at least 1 for every present student, one marked
   present 0 seconds ago included. *)
C24_AttendanceCount ==
    \A p \in AllPairs(classes) :
        LET count == get_attendance_count(classes, p[1], p[2], now, current_scan_interval)
            elapsed == (now - classes[p[1]].attendance_timestamps[p[2]]) * TickSeconds
            floor == CHOOSE k \in 0..(MaxTime * TickSeconds) :
                         /\ k * current_scan_interval <= elapsed
                         /\ elapsed < (k + 1) * current_scan_interval
        IN /\ ~has_timestamp(classes, p) => count = 0
           /\ is_present(classes, p) =>
                  /\ count = (IF floor >= 1 THEN floor ELSE 1)
                  /\ count >= 1

\* One student was marked present at this very clock reading, another one a
\* clock step ago, which is two scan intervals or more.
C24_Witness ==
    /\ \E p \in AllPairs(classes) :
           /\ is_present(classes, p)
           /\ classes[p[1]].attendance_timestamps[p[2]] = now
    /\ \E p \in AllPairs(classes) :
           /\ is_present(classes, p)
           /\ get_attendance_count(classes, p[1], p[2], now, current_scan_interval) >= 2

(* C25: set_scan_interval with a value of 0 or less raises and leaves the
   scan interval at its prior value, and the stored scan interval is
   positive in every reachable state. *)
C25_ScanIntervalPositive ==
    /\ current_scan_interval > 0
    /\ \A n \in ScanIntervalArgs \cup {-1} :
           LET r == set_scan_interval(current_scan_interval, n)
           IN IF n <= 0
              THEN r.raised /\ r.current_scan_interval = current_scan_interval
              ELSE ~r.raised /\ r.current_scan_interval = n

\* The interval was changed from its initial value by an accepted update, and
\* an update with 0 is rejected from there.
C25_Witness ==
    /\ up
    /\ current_scan_interval \in ScanIntervals \ {InitialScanInterval}
    /\ set_scan_interval(current_scan_interval, 0).raised

(* C26: after any sequence of interval updates made through the
   application, accepted or rejected, the scan interval of the Scanner, which
   the scan loop reads to pace its polling, equals the scan interval of the
   manager, which the attendance count divides by. *)
C26_OneScanInterval ==
    /\ scanner.scan_interval = current_scan_interval
    /\ \A n \in ScanIntervalArgs \cup {-1} :
           update_scan_interval(scanner, n).scan_interval
               = set_scan_interval(current_scan_interval, n).current_scan_interval

\* Both intervals were moved away from their initial values while a scan
\* loop that has read the interval is running, and an update with 0 would be
\* refused from here.
C26_Witness ==
    /\ scanner.scan_interval # DefaultScanInterval
    /\ current_scan_interval # InitialScanInterval
    /\ \E i \in DOMAIN scanner.loops :
           scanner.loops[i].bound /\ scanner.loops[i].pc = "sleep"
    /\ update_scan_interval(scanner, 0) = scanner

\* The scan loop of the thread start_scanning created last.
current_loop == scanner.loops[Len(scanner.loops)]

(* C27: while scanning is on and no stop was requested, a scan attempt that
   raises, at whatever cycle, does not end the scan loop: the loop of the
   current thread has not exited and goes on to a later scan attempt. *)
C27_ScanErrorsSurvived ==
    (scanner.scanning /\ ~scanner.stop_event.done /\ Len(scanner.loops) > 0)
        => current_loop.pc # "exited"

(* C28: a scan attempt that fails is processed as an empty snapshot: the
   registry its cycle leaves is the one update_attendance leaves for no
   devices, in which every present student not under manual override is
   absent. *)
C28_FailedScanIsEmptySnapshot ==
    \A i \in DOMAIN scanner.loops :
        LET l == scanner.loops[i]
            failed == [raised |-> TRUE, nearby_devices |-> {}]
            d == snapshot_delivered(l, failed, scanner.rssi_threshold)
            after == IF d.called
                     THEN update_attendance(classes, d.found_devices, now)
                     ELSE classes
        IN (l.pc = "discover" /\ ~l.cancelled) =>
               /\ after = update_attendance(classes, {}, now)
               /\ \A p \in AllPairs(classes) :
                      (is_present(classes, p) /\ ~is_overridden(classes, p))
                          => ~is_present(after, p)

(* C29: start_scanning while scanning is on changes nothing: no second
   thread or event loop is created and the stop signal is not replaced. *)
C29_StartIdempotent ==
    scanner.scanning =>
        /\ start_scanning(scanner) = scanner
        /\ Len(start_scanning(scanner).loops) = Len(scanner.loops)
        /\ start_scanning(scanner).stop_event = scanner.stop_event

\* Scanning is on and its thread is in the middle of a cycle.
C29_Witness ==
    /\ scanner.scanning
    /\ thread_is_alive(scanner)
    /\ current_loop.pc = "sleep"
    /\ ~scanner.stop_event.done

\* Thread i was told to stop: its task was cancelled, or it is leaving the
\* while loop, or it has ended.
Stopped(i) ==
    /\ i \in DOMAIN scanner.loops
    /\ \/ scanner.loops[i].cancelled
       \/ scanner.loops[i].leaving
       \/ scanner.loops[i].pc = "exited"

\* Thread i has ended.
Exited(i) == i \in DOMAIN scanner.loops /\ scanner.loops[i].pc = "exited"

\* Thread i, once told to stop, completes no scan and hands on no snapshot,
\* and its sleep is its last step.
NoFurtherCycle(i) ==
    LET l == scanner.loops[i]
    IN /\ l.pc = "check" =>
              \/ loop_check(scanner, l).pc = "exited"
              \/ l.cancelled
       /\ l.pc = "discover" =>
              \A outcome \in ScanOutcomes :
                  /\ ~snapshot_delivered(l, outcome, scanner.rssi_threshold).called
                  /\ loop_discover(l, outcome, scanner.rssi_threshold).pc = "exited"
                         \/ loop_discover(l, outcome, scanner.rssi_threshold).leaving
       /\ l.pc = "sleep" => loop_sleep(l).pc = "exited"

(* C30: stop_scanning called while scanning is on returns without waiting
   for the thread longer than its bounded join, and from then on every scan
   loop eventually exits and starts no further scan cycle; stop_scanning
   while scanning is off changes nothing. *)
C30_StopEndsScanning ==
    /\ [](~scanner.scanning =>
              /\ stop_scanning(scanner) = scanner
              /\ \A i \in DOMAIN scanner.loops : Stopped(i))
    /\ [](\A i \in DOMAIN scanner.loops :
              (Stopped(i) /\ scanner.loops[i].pc # "exited") => NoFurtherCycle(i))
    /\ \A i \in 1..MaxThreads :
           Stopped(i) ~> Exited(i)

\* stop_scanning has returned while the thread it stopped is still alive, at
\* a statement it was cancelled at.
C30_Witness ==
    /\ ~scanner.scanning
    /\ thread_is_alive(scanner)
    /\ current_loop.cancelled
    /\ current_loop.pc \in {"discover", "sleep"}

\* Thread i is about to complete a scan: discover() is awaited and no stop
\* was requested of the thread.
Scanning(i) ==
    /\ i \in DOMAIN scanner.loops
    /\ scanner.loops[i].pc = "discover"
    /\ ~scanner.loops[i].cancelled

\* The scans that complete: discover() returns a list of devices.
CompletedScans == {outcome \in ScanOutcomes : ~outcome.raised}

\* The registry once the snapshot of the cycle was applied, or the unchanged
\* registry when the cycle hands on no snapshot.
after_cycle(cls, d, current_time) ==
    IF d.called THEN update_attendance(cls, d.found_devices, current_time) ELSE cls

(* C31: every completed scan cycle applies its snapshot to the ledger: after
   the cycle, every roster student not under manual override is present
   exactly when one of their bound devices was in the snapshot of that cycle,
   also when the snapshot is empty or equal to the one before. *)
C31_EveryCycleReconciles ==
    \A i \in DOMAIN scanner.loops : \A outcome \in CompletedScans :
        LET d == snapshot_delivered(scanner.loops[i], outcome, scanner.rssi_threshold)
            after == after_cycle(classes, d, now)
        IN Scanning(i) =>
               \A p \in InRoster(classes, AllPairs(classes)) :
                   ~is_overridden(classes, p) =>
                       (is_present(after, p)
                            <=> bound_macs(classes, p) \cap d.found_devices # {})

\* line.strip(): the line of a text file without its line end.
strip(line) == IF line = "aa:01\n" THEN "aa:01" ELSE IF line = "\n" THEN "" ELSE line

\* load_blacklist of the manager in io_utils.py: every non-blank line of the
\* file, stripped and upper-cased, is added to self.blacklist.
load_blacklist(blacklist, lines) ==
    blacklist \cup {upper(strip(line)) : line \in {x \in lines : strip(x) # ""}}

\* The blacklist files considered, and the blacklists they load into an
\* empty set.
BlacklistFiles == SUBSET {"aa:01\n", "\n"}
Blacklists == {load_blacklist({}, lines) : lines \in BlacklistFiles}

\* The found devices of a completed scan are the nearby devices at or above
\* the floor read in that cycle.
AboveFloor(outcome, d) ==
    \A device \in outcome.nearby_devices :
        upper(device.address) \in d.found_devices
            <=> device.rssi >= scanner.rssi_threshold

(* C32: the snapshot a cycle hands on contains no device that is on the
   blacklist and no device whose signal strength is below the floor
   configured at that cycle. *)
C32_SnapshotFiltered ==
    \A i \in DOMAIN scanner.loops : \A outcome \in CompletedScans :
        LET d == snapshot_delivered(scanner.loops[i], outcome, scanner.rssi_threshold)
        IN Scanning(i) =>
               /\ AboveFloor(outcome, d)
               /\ \A blacklist \in Blacklists : d.found_devices \cap blacklist = {}

\* Some scan thread is inside BleakScanner.discover().
ScanInProgress ==
    \E i \in DOMAIN scanner.loops : scanner.loops[i].pc = "discover"

(* C34: BleakScanner.discover() is awaited while the scan thread holds
   neither the registry lock nor the settings lock of the Scanner: during a
   scan, however long, a manual mark, a device assignment and an update of
   the RSSI threshold or of the scan interval can run. *)
C34_ScanOutsideLocks ==
    ScanInProgress =>
        /\ \A i \in DOMAIN scanner.loops :
               scanner.loops[i].pc = "discover" => scanner.loops[i].locks = {}
        /\ settings_lock_free(scanner)
        /\ lock = NoThread
        /\ \A t \in RssiThresholds : ENABLED UpdateRssiThreshold(t)
        /\ \A n \in ScanIntervalArgs : ENABLED UpdateScanInterval(n)
        /\ ENABLED MarkStudentPresent("CSCI-101", "1")
        /\ ENABLED AssignDeviceToStudent("CSCI-101", "1", "aa:01")

\* A scan is in progress in a thread that has completed a cycle before, and
\* the floor was changed since the Scanner was built.
C34_Witness ==
    /\ \E i \in DOMAIN scanner.loops :
           scanner.loops[i].pc = "discover" /\ scanner.loops[i].bound
    /\ scanner.rssi_threshold # DefaultRssiThreshold

\* Thread i of the Scanner s can still complete a scan and hand on its
\* snapshot: it is at the while condition with stop_event not done, or inside
\* discover(), or in a sleep after which the condition is tested again, and
\* its task is not cancelled.
CanScan(s, i) ==
    /\ i \in DOMAIN s.loops
    /\ ~s.loops[i].cancelled
    /\ \/ s.loops[i].pc = "check" /\ ~s.stop_event.done
       \/ s.loops[i].pc = "discover"
       \/ s.loops[i].pc = "sleep" /\ ~s.loops[i].leaving /\ ~s.stop_event.done

(* C37: after any sequence of start_scanning and stop_scanning, also when a
   stop returned with its thread still alive and a start followed, at most
   one scan loop can still complete scans and hand on snapshots; and a loop
   that can no longer do so never can again, whatever is called later, a
   start_scanning included. *)
C37_OneScanLoop ==
    /\ [](/\ Cardinality({i \in DOMAIN scanner.loops : CanScan(scanner, i)}) <= 1
          /\ \A i \in DOMAIN scanner.loops :
                 ~CanScan(scanner, i) => ~CanScan(start_scanning(scanner), i))
    /\ [][\A i \in DOMAIN scanner.loops :
              ~CanScan(scanner, i) => ~CanScan(scanner', i)]_vars

\* stop_scanning returned while its thread was alive, start_scanning was
\* called after it, and the old thread is still alive next to the new one.
C37_Witness ==
    /\ Len(scanner.loops) = 2
    /\ scanner.loops[1].pc # "exited"
    /\ ~CanScan(scanner, 1)
    /\ CanScan(scanner, 2)
    /\ scanner.loops[2].pc = "discover"

(* C38: whenever the scanning flag of the Scanner is true its scan loop is
   running; and when the loop has exited on its own, the next start_scanning
   starts a new loop. *)
C38_ScanningMeansRunning ==
    /\ scanner.scanning => thread_is_alive(scanner)
    /\ (Len(scanner.loops) > 0 /\ ~thread_is_alive(scanner)
            /\ ~scanner.stop_event.done) =>
           /\ Len(start_scanning(scanner).loops) = Len(scanner.loops) + 1
           /\ thread_is_alive(start_scanning(scanner))

(* C39: once stop_scanning has returned, update_attendance is no longer
   invoked from scan results: while scanning is off no snapshot of the
   stopped loop is waiting on the Tk main thread to be applied. *)
C39_NoSnapshotAfterStop ==
    ~scanner.scanning =>
        /\ scanner.scheduled = <<>>
        /\ ~ENABLED OnScanResults

(* C33: every facade call and every reconcile cycle holds the one shared
   lock for its full duration: a thread that stands at a statement reading
   or writing the registry owns the lock. *)
C33_RegistryUnderLock ==
    /\ call.pc \in {"unbind", "bind", "save", "reset", "save_data"} => lock = Caller
    /\ cycle.pc \in {"loop", "add_class", "add_student_to_class"} => lock = Second

(* C35: update_attendance changes no binding, no roster entry and no
   manual_override flag: for every snapshot the classes, the students of each
   class, their MAC sets and their override flags are the same before and
   after the call. *)
C35_UpdateAttendanceFrame ==
    \A found \in Snapshots :
        LET after == update_attendance(classes, found, now)
        IN /\ DOMAIN after = DOMAIN classes
           /\ \A c \in DOMAIN classes :
                  /\ after[c].students = classes[c].students
                  /\ after[c].student_mac_addresses = classes[c].student_mac_addresses

\* A student under manual override holds a device that a snapshot contains,
\* and a snapshot changes the presence of some student.
C35_Witness ==
    /\ \E p \in AllPairs(classes) :
           /\ is_overridden(classes, p)
           /\ bound_macs(classes, p) # {}
           /\ update_attendance(classes, bound_macs(classes, p), now)[p[1]].students[p[2]]
                  .manual_override
    /\ \E found \in Snapshots : update_attendance(classes, found, now) # classes

(* C36: in every reachable state every student ID in the present set or in
   the timestamp table of a class is in the roster of that class. *)
C36_PresenceInRoster ==
    \A c \in DOMAIN classes :
        classes[c].present_students \cup DOMAIN classes[c].attendance_timestamps
            \subseteq DOMAIN classes[c].students

\* The reassignments considered: the device found by the scans, given to a
\* student of the class.
ReassignArgs == {"CSCI-101"} \X StudentIds \X {"aa:01"}

(* C40: a snapshot captured before a device is reassigned from one student
   to another and applied after the reassignment does not mark the former
   holder present on the evidence of that device: the former holder no
   longer holds the device, and a reconcile cycle on any waiting snapshot
   makes a student present only when a device the student holds at that
   time is in the snapshot. *)
C40_StaleSnapshot ==
    \A k \in DOMAIN scanner.scheduled :
        LET found == scanner.scheduled[k]
        IN /\ \A p \in AllPairs(classes) :
                  (~is_present(classes, p)
                       /\ is_present(update_attendance(classes, found, now), p))
                      => bound_macs(classes, p) \cap found # {}
           /\ \A x \in ReassignArgs :
                  LET r == assign_device_to_student(classes, x[1], x[2], x[3])
                      after == update_attendance(r.classes, found, now)
                  IN ~r.raised =>
                         \A p \in holders(classes, upper(x[3])) \ {<<x[1], x[2]>>} :
                             /\ upper(x[3]) \notin bound_macs(r.classes, p)
                             /\ is_present(after, p) =>
                                    bound_macs(r.classes, p) \cap found # {}

\* A snapshot with AA:01 waits to be applied while AA:01 is held by student
\* 2, who is present, and not by student 1, who is absent.
C40_Witness ==
    /\ scanner.scheduled # <<>>
    /\ "AA:01" \in Head(scanner.scheduled)
    /\ "CSCI-101" \in DOMAIN classes
    /\ {"1", "2"} \subseteq DOMAIN classes["CSCI-101"].students
    /\ "AA:01" \in bound_macs(classes, <<"CSCI-101", "2">>)
    /\ "AA:01" \notin bound_macs(classes, <<"CSCI-101", "1">>)
    /\ ~is_present(classes, <<"CSCI-101", "1">>)
    /\ is_present(classes, <<"CSCI-101", "2">>)

====
